---- MODULE Spec2Model ----
(***************************************************************************)
(* Review classifier (app.py): the cached model loader, the text cleaner,  *)
(* the per-axis prediction of the Analyze handler, and the two explanation *)
(* helpers.                                                                *)
(*                                                                         *)
(* A Python str is a sequence of one-character strings.  A Python value is *)
(* a tagged record, so that None, str, int, list, dict and model objects   *)
(* can be told apart the way isinstance / attribute lookup tells them      *)
(* apart at run time.  The outcome "an exception was raised" is the value  *)
(* Raise.                                                                  *)
(***************************************************************************)
EXTENDS Integers, Sequences, FiniteSets, TLC

VARIABLES
    \* ---- process-wide state -------------------------------------------
    files,          \* the models/ directory: artifact key -> file content
    cache,          \* st.cache_resource's entry for load_models
    loads,          \* how many times the body of load_models has run
    \* ---- one script run of main() -------------------------------------
    pc,             \* position of the script run
    review,         \* st.text_area value
    models,         \* local: load_models()
    cleaned_text,   \* local: clean_text(review)
    sentiment, review_type, category,   \* locals of the Analyze branch
    keywords,       \* local: get_top_keywords(...)
    topic_num,      \* local: inline topic resolver
    shown,          \* what the run has rendered so far (st.warning, cards, st.info)
    calls,          \* helpers invoked by this run (predict, get_top_keywords, resolver)
    \* ---- concurrent sessions calling load_models() --------------------
    lock,           \* holder of the cache's compute lock, 0 when free
    lpc,            \* session -> position inside the cached call
    lret,           \* session -> what its last load_models() call returned
    \* ---- a single call of one of the pure helpers ---------------------
    fn, arg, ret, ret2

vars == <<files, cache, loads, pc, review, models, cleaned_text, sentiment,
          review_type, category, keywords, topic_num, shown, calls,
          lock, lpc, lret, fn, arg, ret, ret2>>

mainVars == <<pc, review, models, cleaned_text, sentiment, review_type,
              category, keywords, topic_num, shown, calls>>
loadVars == <<lock, lpc, lret>>
fnVars   == <<fn, arg, ret, ret2>>

(***************************************************************************)
(* Bounds of the model.                                                    *)
(***************************************************************************)
MaxLen      == 3    \* longest text handed to clean_text
MaxKwLen    == 3    \* longest text handed to get_top_keywords
MaxEntries  == 3    \* most entries of a topic mapping
NumSessions == 2    \* sessions calling load_models() concurrently
MaxLoads    == 3    \* cap on the load counter

(***************************************************************************)
(* Python values.                                                          *)
(***************************************************************************)
PyNone      == [t |-> "None"]
Raise       == [t |-> "Raise"]
PyStr(s)      == [t |-> "str", v |-> s]
PyInt(n)      == [t |-> "int", v |-> n]
PyList(s)     == [t |-> "list", v |-> s]
\* a dict keeps insertion order: a sequence of <<key, value>> pairs, keys distinct
PyDict(items) == [t |-> "dict", items |-> items]
\* an unpickled classifier; kind says what its predict does
Model(kind) == [t |-> "model", kind |-> kind]

IsStr(x)  == x.t = "str"
IsDict(x) == x.t = "dict"

(***************************************************************************)
(* Characters.  \s of the re module and str.isspace agree on these.        *)
(***************************************************************************)
LowerAZ == {"a","b","c","d","e","f","g","h","i","j","k","l","m",
            "n","o","p","q","r","s","t","u","v","w","x","y","z"}    \* [a-z]
Space   == {" ", "\t", "\n"}

\* str.lower() of one character.  It is not length preserving: U+0130
\* ("I_dot") lowers to "i" followed by the combining dot above U+0307.
UpperSeq == <<"A","B","C","D","E","F","G","H","I","J","K","L","M",
             "N","O","P","Q","R","S","T","U","V","W","X","Y","Z">>
LowerSeq == <<"a","b","c","d","e","f","g","h","i","j","k","l","m",
             "n","o","p","q","r","s","t","u","v","w","x","y","z">>

lower_char(c) ==
    IF \E i \in 1..26 : UpperSeq[i] = c
    THEN <<LowerSeq[CHOOSE i \in 1..26 : UpperSeq[i] = c]>>
    ELSE IF c = "I_dot" THEN <<"i", "dot_above">>
    ELSE <<c>>

RECURSIVE str_lower(_)
str_lower(s) ==
    IF s = <<>> THEN <<>> ELSE lower_char(Head(s)) \o str_lower(Tail(s))

\* kw in text : substring containment
str_contains(text, kw) ==
    \E i \in 0..(Len(text) - Len(kw)) : SubSeq(text, i + 1, i + Len(kw)) = kw

RECURSIVE str_lstrip(_)
str_lstrip(s) ==
    IF s # <<>> /\ Head(s) \in Space THEN str_lstrip(Tail(s)) ELSE s

RECURSIVE str_rstrip(_)
str_rstrip(s) ==
    IF s # <<>> /\ s[Len(s)] \in Space
    THEN str_rstrip(SubSeq(s, 1, Len(s) - 1)) ELSE s

str_strip(s) == str_rstrip(str_lstrip(s))

\* re.sub(r'[^a-z\s]', '', s): scan left to right, drop every match
RECURSIVE re_sub_not_az_space(_)
re_sub_not_az_space(s) ==
    IF s = <<>> THEN <<>>
    ELSE IF Head(s) \in LowerAZ \cup Space
         THEN <<Head(s)>> \o re_sub_not_az_space(Tail(s))
         ELSE re_sub_not_az_space(Tail(s))

\* the same call with count=1: only the first match is dropped
RECURSIVE re_sub_first_only(_)
re_sub_first_only(s) ==
    IF s = <<>> THEN <<>>
    ELSE IF Head(s) \in LowerAZ \cup Space
         THEN <<Head(s)>> \o re_sub_first_only(Tail(s))
         ELSE Tail(s)

\* the pattern without \s: whitespace is dropped as well
RECURSIVE re_sub_not_az(_)
re_sub_not_az(s) ==
    IF s = <<>> THEN <<>>
    ELSE IF Head(s) \in LowerAZ
         THEN <<Head(s)>> \o re_sub_not_az(Tail(s))
         ELSE re_sub_not_az(Tail(s))

clean_text_first_only(text) == re_sub_first_only(str_lower(text))

clean_text_no_space(text) == re_sub_not_az(str_lower(text))

\* def clean_text(text)
clean_text(text) == re_sub_not_az_space(str_lower(text))

(***************************************************************************)
(* dict helpers                                                            *)
(***************************************************************************)
RECURSIVE dict_get(_, _, _)
dict_get(items, key, default) ==
    IF items = <<>> THEN default
    ELSE IF Head(items)[1] = key THEN Head(items)[2]
         ELSE dict_get(Tail(items), key, default)

\* [kw for kw in keywords if kw in text_lower]
RECURSIVE matching(_, _)
matching(kws, text_lower) ==
    IF kws = <<>> THEN <<>>
    ELSE IF str_contains(text_lower, Head(kws))
         THEN <<Head(kws)>> \o matching(Tail(kws), text_lower)
         ELSE matching(Tail(kws), text_lower)

\* the same function looking the label up as given, without .lower()
get_top_keywords_no_lower(text, keyword_dict, rtype) ==
    IF ~IsDict(keyword_dict) \/ ~IsStr(rtype) THEN Raise
    ELSE PyList(matching(dict_get(keyword_dict.items, rtype.v, <<>>),
                       str_lower(text.v)))

\* def get_top_keywords(text, keyword_dict, review_type)
\* keyword_dict.get on a non-dict, review_type.lower() on a non-str: AttributeError
get_top_keywords(text, keyword_dict, rtype) ==
    IF ~IsDict(keyword_dict) \/ ~IsStr(rtype) THEN Raise
    ELSE PyList(matching(dict_get(keyword_dict.items, str_lower(rtype.v), <<>>),
                       str_lower(text.v)))

\* [k for k, v in topic_mapping.items() if v == category]
RECURSIVE topic_candidates(_, _)
topic_candidates(items, cat) ==
    IF items = <<>> THEN <<>>
    ELSE IF Head(items)[2] = cat
         THEN <<Head(items)[1]>> \o topic_candidates(Tail(items), cat)
         ELSE topic_candidates(Tail(items), cat)

\* f"Topic {topic_num} keywords"
TopicText(k) == [t |-> "topic_text", topic |-> k]

\* def get_category_keywords(topic_mapping, category)
\* [...][0] on an empty list: IndexError
get_category_keywords(topic_mapping, cat) ==
    IF ~IsDict(topic_mapping) THEN Raise
    ELSE LET c == topic_candidates(topic_mapping.items, cat)
         IN  IF c = <<>> THEN Raise ELSE TopicText(c[1])

NA == PyStr(<<"N", "/", "A">>)

\* main, the try block of "Product Category Info":
\*   topic_candidates[0] if topic_candidates else "N/A"; except Exception: "N/A"
resolve_topic(topic_mapping, cat) ==
    IF ~IsDict(topic_mapping) THEN NA
    ELSE LET c == topic_candidates(topic_mapping.items, cat)
         IN  IF c # <<>> THEN PyInt(c[1]) ELSE NA

(***************************************************************************)
(* The models/ directory and load_models.                                  *)
(***************************************************************************)
Keys == {"sentiment", "review_type", "product_category",
         "topic_mapping", "review_keywords", "vectorizer"}

Missing == [t |-> "missing"]    \* no file at the path
Corrupt == [t |-> "corrupt"]    \* a file joblib cannot deserialize

NoSnapshot == [t |-> "nothing"] \* the cache holds no entry yet
Unset      == [t |-> "unset"]   \* a local not assigned, an element not rendered

os_path_exists(content) == content # Missing

\* joblib.load: the pickled object, or an Exception
joblib_load(content) == IF content = Corrupt THEN Raise ELSE content

\* try_load without its except clause
try_load_no_except(content) ==
    IF os_path_exists(content) THEN joblib_load(content) ELSE PyNone

\* def try_load(path): the except clause turns every Exception into None
try_load(content) ==
    IF os_path_exists(content)
    THEN LET r == joblib_load(content) IN IF r = Raise THEN PyNone ELSE r
    ELSE PyNone

\* the body of load_models: a new dict with the six keys; an exception
\* escaping try_load would escape the body
load_models_body(fs, n) ==
    LET d == [k \in Keys |-> try_load(fs[k])]
    IN  IF \E k \in Keys : d[k] = Raise THEN Raise
        ELSE [t |-> "snapshot", id |-> n, d |-> d]

\* @st.cache_resource(): what a call finds in the cache
cache_lookup_uncached(c) == NoSnapshot

cache_lookup(c) == c

(***************************************************************************)
(* Single calls of the pure helpers, on inputs drawn from bounded sets.    *)
(***************************************************************************)
Strings(A, n) == UNION {[1..k -> A] : k \in 0..n}

CleanChars == {"A", "a", "w", "1", "!", " ", "\t", "I_dot"}
KwChars    == {"A", "a", "b", " "}

KwTable1 == PyDict(<< << <<"a","b">>, << <<"b","a">>, <<"a">>, <<"A">>, <<"a","b">> >> >>,
                      << <<"b">>,     << <<"b">>, <<>> >> >> >>)
\* a table whose key is not lowercase
KwTable2 == PyDict(<< << <<"A","b">>, << <<"a">> >> >>,
                      << <<"a">>,     <<>> >> >>)
KwTable3 == PyDict(<<>>)
KwTables == {KwTable1, KwTable2, KwTable3}
KwLabels == {<<"A","b">>, <<"a","b">>, <<"A","B">>, <<"b">>, <<"B">>, <<"a">>, <<"w">>}

Tops    == <<"T","o","p","s">>
Dresses == <<"D","r","e","s","s">>
Shoes   == <<"S","h","o","e","s">>

TopicIds    == {3, 7, 9}
TopicLabels == {Tops, Dresses}
\* every mapping of at most MaxEntries entries, in every insertion order
TopicMappings ==
    {m \in UNION {[1..k -> TopicIds \X {PyStr(l) : l \in TopicLabels}] : k \in 0..MaxEntries} :
        \A i, j \in 1..Len(m) : i # j => m[i][1] # m[j][1]}

FnArgs ==
    {[f |-> "clean_text", text |-> x] : x \in Strings(CleanChars, MaxLen)}
    \cup {[f |-> "get_top_keywords", text |-> PyStr(x), keyword_dict |-> d,
           review_type |-> PyStr(l)] :
            x \in Strings(KwChars, MaxKwLen), d \in KwTables, l \in KwLabels}
    \cup {[f |-> g, topic_mapping |-> PyDict(m), category |-> PyStr(c)] :
            g \in {"get_category_keywords", "resolve_topic"},
            m \in TopicMappings, c \in {Tops, Dresses, Shoes}}

IdleShown == [warning |-> FALSE, sentiment |-> Unset, review_type |-> Unset,
              category |-> Unset, type_info |-> Unset, category_info |-> Unset]
IdleCalls == [load |-> FALSE, predict |-> {}, keywords |-> FALSE, topic |-> FALSE]

IdleWorld == /\ files = [k \in Keys |-> Missing]
             /\ cache = NoSnapshot
             /\ loads = 0
IdleMain  == /\ pc = "idle"
             /\ review = <<>>
             /\ models = Unset
             /\ cleaned_text = Unset
             /\ sentiment = Unset /\ review_type = Unset /\ category = Unset
             /\ keywords = Unset
             /\ topic_num = Unset
             /\ shown = IdleShown
             /\ calls = IdleCalls
IdleLoad  == /\ lock = 0
             /\ lpc = <<>>
             /\ lret = <<>>
IdleFn    == /\ fn = "none"
             /\ arg = Unset
             /\ ret = Unset
             /\ ret2 = Unset

InitFn == /\ IdleWorld /\ IdleMain /\ IdleLoad
          /\ arg \in FnArgs
          /\ fn = arg.f
          /\ ret = Unset
          /\ ret2 = Unset

CallCleanText ==
    /\ fn = "clean_text" /\ ret = Unset
    /\ ret' = PyStr(clean_text(arg.text))
    /\ UNCHANGED <<files, cache, loads, mainVars, loadVars, fn, arg, ret2>>

\* clean_text applied to its own output
CallCleanTextAgain ==
    /\ fn = "clean_text" /\ ret # Unset /\ ret2 = Unset
    /\ ret2' = PyStr(clean_text(ret.v))
    /\ UNCHANGED <<files, cache, loads, mainVars, loadVars, fn, arg, ret>>

CallGetTopKeywords ==
    /\ fn = "get_top_keywords" /\ ret = Unset
    /\ ret' = get_top_keywords(arg.text, arg.keyword_dict, arg.review_type)
    /\ UNCHANGED <<files, cache, loads, mainVars, loadVars, fn, arg, ret2>>

CallGetCategoryKeywords ==
    /\ fn = "get_category_keywords" /\ ret = Unset
    /\ ret' = get_category_keywords(arg.topic_mapping, arg.category)
    /\ UNCHANGED <<files, cache, loads, mainVars, loadVars, fn, arg, ret2>>

CallResolveTopic ==
    /\ fn = "resolve_topic" /\ ret = Unset
    /\ ret' = resolve_topic(arg.topic_mapping, arg.category)
    /\ UNCHANGED <<files, cache, loads, mainVars, loadVars, fn, arg, ret2>>

NextFn == \/ CallCleanText
          \/ CallCleanTextAgain
          \/ CallGetTopKeywords
          \/ CallGetCategoryKeywords
          \/ CallResolveTopic

SpecFn == InitFn /\ [][NextFn]_vars

(***************************************************************************)
(* main(): one script run per press of the Analyze button.                 *)
(***************************************************************************)
Positive  == <<"P","o","s","i","t","i","v","e">>
Negative  == <<"N","e","g","a","t","i","v","e">>
Complaint == <<"C","o","m","p","l","a","i","n","t">>
Praise    == <<"P","r","a","i","s","e">>

GoodModel     == Model("good")        \* predict returns a str label
RaisingModel  == Model("raising")     \* predict raises
IntLabelModel == Model("int_label")   \* predict returns an int label
NotAModel     == PyList(<<>>)         \* a pickled object of another type

\* the topic mapping and the keyword table the training pipeline pickles
TopicMapping   == PyDict(<< <<3, PyStr(Tops)>>, <<7, PyStr(Dresses)>>, <<9, PyStr(Tops)>> >>)
ReviewKeywords == PyDict(<< << str_lower(Complaint), << <<"b","a","d">>, <<"b","r","o","k","e","n">> >> >>,
                            << str_lower(Praise),    << <<"t","o","p">>, <<"1">> >> >> >>)

\* models[axis].predict([cleaned_text])[0]: the classifier is a black box, a
\* function of the cleaned text; an object without predict: AttributeError
predict(model, axis, cleaned) ==
    IF model.t # "model" THEN Raise
    ELSE IF model.kind = "raising" THEN Raise
    ELSE IF model.kind = "int_label" THEN PyInt(1)
    ELSE IF axis = "sentiment"
         THEN PyStr(IF str_contains(cleaned, <<"b","a","d">>) THEN Negative ELSE Positive)
    ELSE IF axis = "review_type"
         THEN PyStr(IF str_contains(cleaned, <<"b","a","d">>) THEN Complaint ELSE Praise)
    ELSE PyStr(IF str_contains(cleaned, <<"t","o","p">>) THEN Tops ELSE Shoes)

\* if models.get(axis) is not None: try: x = predict ... except Exception: x = None
predict_axis(ms, axis, cleaned) ==
    IF ms.d[axis] # PyNone
    THEN LET r == predict(ms.d[axis], axis, cleaned)
         IN  IF r = Raise THEN PyNone ELSE r
    ELSE PyNone

\* the three blocks under one try: the first exception skips the rest
run_predictions_one_try(ms, cleaned) ==
    LET call(axis) == IF ms.d[axis] # PyNone
                      THEN predict(ms.d[axis], axis, cleaned) ELSE PyNone
        s == call("sentiment")
        r == call("review_type")
        c == call("product_category")
    IN  IF s = Raise
        THEN [sentiment |-> PyNone, review_type |-> PyNone, category |-> PyNone]
        ELSE IF r = Raise
        THEN [sentiment |-> s, review_type |-> PyNone, category |-> PyNone]
        ELSE [sentiment |-> s, review_type |-> r,
              category |-> IF c = Raise THEN PyNone ELSE c]

\* main, "Get predictions": three independent guarded blocks
run_predictions(ms, cleaned) ==
    [sentiment   |-> predict_axis(ms, "sentiment", cleaned),
     review_type |-> predict_axis(ms, "review_type", cleaned),
     category    |-> predict_axis(ms, "product_category", cleaned)]

Unavailable     == PyStr(<<"U","n","a","v","a","i","l","a","b","l","e">>)
InfoUnavailable == [t |-> "info_unavailable"]    \* st.info("... unavailable ...")

\* {x if x is not None else "Unavailable"}
card(x) == IF x # PyNone THEN x ELSE Unavailable

\* the check reduced to the empty string
is_blank_empty_only(r) == r = <<>>

\* not review.strip()
is_blank(r) == str_strip(r) = <<>>

\* if review_type is not None and models.get('review_keywords') is not None
type_gate(rt, ms) == rt # PyNone /\ ms.d["review_keywords"] # PyNone

\* if category is not None and models.get('topic_mapping') is not None
category_gate(cat, ms) == cat # PyNone /\ ms.d["topic_mapping"] # PyNone

Reviews == {<<>>, <<" ", "\t">>, <<"B","a","d","!">>, <<"T","o","p"," ","1">>, <<"!">>}

FileSystems ==
    {f \in [Keys -> {Missing, Corrupt, GoodModel, RaisingModel, IntLabelModel,
                     NotAModel, TopicMapping, ReviewKeywords}] :
        /\ f["sentiment"] \in {Missing, Corrupt, GoodModel, RaisingModel, NotAModel}
        /\ f["review_type"] \in {Missing, GoodModel, RaisingModel, IntLabelModel}
        /\ f["product_category"] \in {Missing, Corrupt, GoodModel, RaisingModel}
        /\ f["topic_mapping"] \in {Missing, Corrupt, TopicMapping, NotAModel}
        /\ f["review_keywords"] \in {Missing, Corrupt, ReviewKeywords, NotAModel}
        /\ f["vectorizer"] \in {Missing, NotAModel}}

InitMain == /\ files \in FileSystems
            /\ cache = NoSnapshot
            /\ loads = 0
            /\ IdleMain /\ IdleLoad /\ IdleFn

\* st.button("Analyze") pressed with the text area holding r: the script
\* reruns from the top, and a blank review ends it with the warning
ClickAnalyze(r) ==
    /\ pc \in {"idle", "warned", "done", "crashed"}
    /\ review' = r
    /\ models' = Unset /\ cleaned_text' = Unset
    /\ sentiment' = Unset /\ review_type' = Unset /\ category' = Unset
    /\ keywords' = Unset /\ topic_num' = Unset
    /\ calls' = IdleCalls
    /\ shown' = [IdleShown EXCEPT !.warning = is_blank(r)]
    /\ pc' = IF is_blank(r) THEN "warned" ELSE "load"
    /\ UNCHANGED <<files, cache, loads, loadVars, fnVars>>

\* models = load_models(); cleaned_text = clean_text(review)
LoadModels ==
    /\ pc = "load"
    /\ LET hit == cache_lookup(cache)
           new == load_models_body(files, loads + 1)
       IN  IF hit # NoSnapshot
           THEN /\ models' = hit
                /\ pc' = "predict"
                /\ UNCHANGED <<cache, loads>>
           ELSE /\ loads < MaxLoads
                /\ loads' = loads + 1
                /\ IF new = Raise
                   THEN /\ pc' = "crashed"
                        /\ UNCHANGED <<cache, models>>
                   ELSE /\ cache' = new
                        /\ models' = new
                        /\ pc' = "predict"
    /\ cleaned_text' = PyStr(clean_text(review))
    /\ calls' = [calls EXCEPT !.load = TRUE]
    /\ UNCHANGED <<files, review, sentiment, review_type, category, keywords,
                   topic_num, shown, loadVars, fnVars>>

\* the three predictions and the three result cards
Predict ==
    /\ pc = "predict"
    /\ LET res == run_predictions(models, cleaned_text.v)
       IN  /\ sentiment' = res.sentiment
           /\ review_type' = res.review_type
           /\ category' = res.category
           /\ shown' = [shown EXCEPT !.sentiment = card(res.sentiment),
                                     !.review_type = card(res.review_type),
                                     !.category = card(res.category)]
    /\ calls' = [calls EXCEPT !.predict =
                    {k \in {"sentiment", "review_type", "product_category"} :
                        models.d[k] # PyNone}]
    /\ pc' = "explain_type"
    /\ UNCHANGED <<files, cache, loads, review, models, cleaned_text, keywords,
                   topic_num, loadVars, fnVars>>

\* with st.expander("Review Type Reason"): an exception of get_top_keywords
\* is not caught and ends the script run
ExplainReviewType ==
    /\ pc = "explain_type"
    /\ IF type_gate(review_type, models)
       THEN LET k == get_top_keywords(PyStr(review), models.d["review_keywords"],
                                      review_type)
            IN  /\ calls' = [calls EXCEPT !.keywords = TRUE]
                /\ IF k = Raise
                   THEN /\ pc' = "crashed"
                        /\ UNCHANGED <<keywords, shown>>
                   ELSE /\ keywords' = k
                        /\ shown' = [shown EXCEPT !.type_info = k]
                        /\ pc' = "explain_category"
       ELSE /\ shown' = [shown EXCEPT !.type_info = InfoUnavailable]
            /\ pc' = "explain_category"
            /\ UNCHANGED <<keywords, calls>>
    /\ UNCHANGED <<files, cache, loads, review, models, cleaned_text, sentiment,
                   review_type, category, topic_num, loadVars, fnVars>>

\* with st.expander("Product Category Info")
ExplainCategory ==
    /\ pc = "explain_category"
    /\ IF category_gate(category, models)
       THEN LET n == resolve_topic(models.d["topic_mapping"], category)
            IN  /\ topic_num' = n
                /\ calls' = [calls EXCEPT !.topic = TRUE]
                /\ shown' = [shown EXCEPT !.category_info = n]
       ELSE /\ shown' = [shown EXCEPT !.category_info = InfoUnavailable]
            /\ UNCHANGED <<topic_num, calls>>
    /\ pc' = "done"
    /\ UNCHANGED <<files, cache, loads, review, models, cleaned_text, sentiment,
                   review_type, category, keywords, loadVars, fnVars>>

NextMain == \/ \E r \in Reviews : ClickAnalyze(r)
            \/ LoadModels
            \/ Predict
            \/ ExplainReviewType
            \/ ExplainCategory

Spec == InitMain /\ [][NextMain]_vars

(***************************************************************************)
(* Sessions calling load_models() concurrently.  Every session runs the    *)
(* script in a thread of its own; st.cache_resource looks the entry up,    *)
(* and on a miss takes the cache's compute lock, looks again, and only     *)
(* then runs the function and stores what it returned.                     *)
(***************************************************************************)
Sessions == 1..NumSessions

ValidContent(k) ==
    IF k \in {"sentiment", "review_type", "product_category"} THEN GoodModel
    ELSE IF k = "topic_mapping" THEN TopicMapping
    ELSE IF k = "review_keywords" THEN ReviewKeywords
    ELSE NotAModel

InitLoad == /\ files \in {f \in [Keys -> {Missing, Corrupt, GoodModel, TopicMapping,
                                           ReviewKeywords, NotAModel}] :
                            \A k \in Keys : f[k] \in {Missing, Corrupt, ValidContent(k)}}
            /\ cache = NoSnapshot
            /\ loads = 0
            /\ lock = 0
            /\ lpc = [s \in Sessions |-> "idle"]
            /\ lret = [s \in Sessions |-> Unset]
            /\ IdleMain /\ IdleFn

\* load_models() is called: the first, unlocked lookup
Lookup(s) ==
    /\ lpc[s] = "idle"
    /\ LET hit == cache_lookup(cache)
       IN  IF hit # NoSnapshot
           THEN /\ lret' = [lret EXCEPT ![s] = hit]
                /\ lpc' = [lpc EXCEPT ![s] = "returned"]
           ELSE /\ lpc' = [lpc EXCEPT ![s] = "wait"]
                /\ UNCHANGED lret
    /\ UNCHANGED <<files, cache, loads, lock, mainVars, fnVars>>

Acquire(s) ==
    /\ lpc[s] = "wait"
    /\ lock = 0
    /\ lock' = s
    /\ lpc' = [lpc EXCEPT ![s] = "locked"]
    /\ UNCHANGED <<files, cache, loads, lret, mainVars, fnVars>>

\* under the lock: another session may have stored the value meanwhile
Recheck(s) ==
    /\ lpc[s] = "locked"
    /\ LET hit == cache_lookup(cache)
       IN  IF hit # NoSnapshot
           THEN /\ lret' = [lret EXCEPT ![s] = hit]
                /\ lpc' = [lpc EXCEPT ![s] = "returned"]
                /\ lock' = 0
           ELSE /\ lpc' = [lpc EXCEPT ![s] = "compute"]
                /\ UNCHANGED <<lret, lock>>
    /\ UNCHANGED <<files, cache, loads, mainVars, fnVars>>

\* the body of load_models runs; its value is stored and the lock released;
\* an exception would leave the cache empty and reach the caller
Compute(s) ==
    /\ lpc[s] = "compute"
    /\ loads < MaxLoads
    /\ loads' = loads + 1
    /\ lock' = 0
    /\ LET new == load_models_body(files, loads + 1)
       IN  IF new = Raise
           THEN /\ lpc' = [lpc EXCEPT ![s] = "raised"]
                /\ UNCHANGED <<cache, lret>>
           ELSE /\ cache' = new
                /\ lret' = [lret EXCEPT ![s] = new]
                /\ lpc' = [lpc EXCEPT ![s] = "returned"]
    /\ UNCHANGED <<files, mainVars, fnVars>>

\* the rest of the Analyze branch: the snapshot is only read (models.get,
\* models[...]); the session is then free to press Analyze again
Classify(s) ==
    /\ lpc[s] = "returned"
    /\ lpc' = [lpc EXCEPT ![s] = "idle"]
    /\ UNCHANGED <<files, cache, loads, lock, lret, mainVars, fnVars>>

NextLoad == \E s \in Sessions :
                \/ Lookup(s)
                \/ Acquire(s)
                \/ Recheck(s)
                \/ Compute(s)
                \/ Classify(s)

SpecLoad == InitLoad /\ [][NextLoad]_vars

(***************************************************************************)
(* Properties of the pure helpers (checked under SpecFn).                  *)
(***************************************************************************)
InClass(c) == c \in LowerAZ \cup Space

ExampleRaw     == <<"A","M","A","Z","I","N","G","!","!"," ","1","0","/","1","0",
                    " ","w","o","u","l","d">>
ExampleCleaned == <<"a","m","a","z","i","n","g"," "," ","w","o","u","l","d">>

\* C6: clean_text returns the lowercased input with every character outside
\* [a-z\s] deleted and the others kept in order; the output holds no other
\* character and whitespace runs are not collapsed ("AMAZING!! 10/10 would"
\* becomes "amazing  would").
C6_CleanTextFilters ==
    /\ clean_text(ExampleRaw) = ExampleCleaned
    /\ (fn = "clean_text" /\ ret # Unset) =>
          /\ ret.t = "str"
          /\ ret.v = SelectSeq(str_lower(arg.text), InClass)
          /\ \A i \in 1..Len(ret.v) : InClass(ret.v[i])

C6_Witness ==
    /\ fn = "clean_text"
    /\ arg.text = <<"A", "!", "\t">>
    /\ ret = PyStr(<<"a", "\t">>)

\* C7: clean_text is idempotent: cleaning its own output changes nothing.
C7_CleanTextIdempotent ==
    (fn = "clean_text" /\ ret2 # Unset) => ret2 = ret

C7_Witness ==
    /\ fn = "clean_text"
    /\ arg.text = <<"I_dot", "1", "A">>
    /\ ret = PyStr(<<"i", "a">>)
    /\ ret2 = PyStr(<<"i", "a">>)

KwKeys(d) == {d.items[i][1] : i \in 1..Len(d.items)}
KwList(d, key) ==
    IF key \in KwKeys(d)
    THEN d.items[CHOOSE i \in 1..Len(d.items) : d.items[i][1] = key][2]
    ELSE <<>>

\* C8: get_top_keywords looks the label up by its lowercase form (so labels
\* differing only in case give the same result), a label without an entry
\* gives the empty list and no error, and the result is exactly the keywords
\* of table[label.lower()], in the list's order, that are substrings of
\* text.lower().
C8_TopKeywords ==
    (fn = "get_top_keywords" /\ ret # Unset) =>
        LET low == str_lower(arg.text.v)
            key == str_lower(arg.review_type.v)
            kws == KwList(arg.keyword_dict, key)
            In(kw) == str_contains(low, kw)
        IN  /\ ret.t = "list"
            /\ ret.v = SelectSeq(kws, In)
            /\ \A i \in 1..Len(ret.v) :
                    /\ str_contains(low, ret.v[i])
                    /\ \E j \in 1..Len(kws) : kws[j] = ret.v[i]
            /\ key \notin KwKeys(arg.keyword_dict) => ret.v = <<>>
            /\ \A l \in KwLabels :
                    str_lower(l) = key =>
                        get_top_keywords(arg.text, arg.keyword_dict, PyStr(l)) = ret

C8_Witness ==
    /\ fn = "get_top_keywords"
    /\ arg.text = PyStr(<<"A", "b", "a">>)
    /\ arg.keyword_dict = KwTable1
    /\ arg.review_type = PyStr(<<"A", "B">>)
    /\ ret = PyList(<< <<"b","a">>, <<"a">>, <<"a","b">> >>)

\* indices of the entries of a mapping whose value is the label
Matches(items, label) == {i \in 1..Len(items) : items[i][2] = label}
FirstMatch(items, label) ==
    items[CHOOSE i \in Matches(items, label) :
            \A j \in Matches(items, label) : i <= j][1]

\* C9: both topic resolvers (get_category_keywords and the inline one of
\* main) give the first topic identifier, in the mapping's iteration order,
\* whose value equals the label, and a not-found marker instead of an error
\* when no entry matches.
C9_TopicResolution ==
    /\ (fn = "resolve_topic" /\ ret # Unset) =>
          IF Matches(arg.topic_mapping.items, arg.category) # {}
          THEN ret = PyInt(FirstMatch(arg.topic_mapping.items, arg.category))
          ELSE ret = NA
    /\ (fn = "get_category_keywords" /\ ret # Unset) =>
          IF Matches(arg.topic_mapping.items, arg.category) # {}
          THEN ret = TopicText(FirstMatch(arg.topic_mapping.items, arg.category))
          ELSE ret # Raise

\* The inline resolver of main alone does satisfy the statement of C9.
InlineResolverFirstMatch ==
    (fn = "resolve_topic" /\ ret # Unset) =>
        IF Matches(arg.topic_mapping.items, arg.category) # {}
        THEN ret = PyInt(FirstMatch(arg.topic_mapping.items, arg.category))
        ELSE ret = NA

(***************************************************************************)
(* Properties of the Analyze handler (checked under Spec).                 *)
(***************************************************************************)
Axes == {"sentiment", "review_type", "product_category"}
Shown(a) == IF a = "product_category" THEN shown.category ELSE shown[a]
Blank(r) == \A i \in 1..Len(r) : r[i] \in Space
\* the file of an axis holds a classifier whose predict returns a label
Working(a) == files[a].t = "model" /\ files[a].kind # "raising"

\* C1: axis isolation.  Once the cards are rendered, whatever subset of the
\* three classifiers is absent, undeserializable or raising, every other
\* axis shows exactly the label its own model returns for the cleaned
\* review, and the absent or failing axes show Unavailable.
C1_AxisIsolation ==
    shown.sentiment # Unset =>
        \A a \in Axes :
            IF Working(a)
            THEN Shown(a) = predict(files[a], a, clean_text(review))
            ELSE Shown(a) = Unavailable

C1_Witness ==
    /\ review = <<"B","a","d","!">>
    /\ files["sentiment"] = GoodModel
    /\ files["review_type"] = RaisingModel
    /\ files["product_category"] = Missing
    /\ shown.sentiment = PyStr(Negative)
    /\ shown.review_type = Unavailable
    /\ shown.category = Unavailable

\* C2: never-raises.  For a non-blank review and every combination of
\* missing, malformed or failing artifacts no exception escapes the Analyze
\* path, and a finished run shows a label or Unavailable on each card.
C2_NeverRaises ==
    /\ pc # "crashed"
    /\ pc = "done" => \A a \in Axes : Shown(a) # Unset

\* C4: empty-input short-circuit.  A blank review yields the warning and
\* nothing else: no card, no explanation, and no call of load_models, of a
\* predict, of get_top_keywords or of the topic resolver; any such call
\* belongs to a run whose review is not blank.
C4_EmptyInputShortCircuit ==
    /\ (pc # "idle" /\ Blank(review)) =>
          /\ pc = "warned"
          /\ shown = [IdleShown EXCEPT !.warning = TRUE]
          /\ calls = IdleCalls
          /\ models = Unset /\ cleaned_text = Unset
          /\ sentiment = Unset /\ review_type = Unset /\ category = Unset
    /\ (calls # IdleCalls \/ shown.sentiment # Unset) =>
          (~Blank(review) /\ ~shown.warning)
    /\ pc = "warned" => Blank(review)

\* the warning, in a process whose cache an earlier request has filled
C4_Witness ==
    /\ pc = "warned"
    /\ review = <<" ", "\t">>
    /\ shown.warning
    /\ cache # NoSnapshot
    /\ calls = IdleCalls

\* C10: explanation gating.  get_top_keywords is called only with a
\* review-type label and a keyword table, the topic resolver only with a
\* category label and a topic mapping; in every other case of a request the
\* explanation is reported as unavailable and the helper is not called.
C10_ExplanationGating ==
    pc \in {"done", "crashed"} =>
        /\ calls.keywords => type_gate(review_type, models)
        /\ calls.topic => category_gate(category, models)
        /\ ~type_gate(review_type, models) =>
              (shown.type_info = InfoUnavailable /\ ~calls.keywords)
        /\ ~category_gate(category, models) =>
              (shown.category_info = InfoUnavailable /\ ~calls.topic)

\* What does hold of the gating: no helper is ever called outside its gate,
\* and a run that reaches its end has reported every ungated explanation as
\* unavailable.
GatingOfCompletedRuns ==
    /\ calls.keywords => type_gate(review_type, models)
    /\ calls.topic => category_gate(category, models)
    /\ pc = "done" =>
          /\ ~type_gate(review_type, models) =>
                (shown.type_info = InfoUnavailable /\ ~calls.keywords)
          /\ ~category_gate(category, models) =>
                (shown.category_info = InfoUnavailable /\ ~calls.topic)

(***************************************************************************)
(* Properties of load_models (checked under SpecLoad).                     *)
(***************************************************************************)
Loaded(k) == IF files[k] \in {Missing, Corrupt} THEN PyNone ELSE files[k]
WellFormed(snap) ==
    /\ DOMAIN snap.d = Keys
    /\ \A k \in Keys : snap.d[k] = Loaded(k)

\* C3: load_models never propagates an error.  No call ends with an
\* exception, and every snapshot stored or returned has all six keys, None
\* for each artifact that is missing or cannot be deserialized and the
\* loaded object for each of the others.
C3_LoadNeverRaises ==
    /\ \A s \in Sessions : lpc[s] # "raised"
    /\ cache # NoSnapshot => WellFormed(cache)
    /\ \A s \in Sessions : lret[s] # Unset => WellFormed(lret[s])

C3_Witness ==
    /\ files["sentiment"] = Corrupt
    /\ files["review_type"] = Missing
    /\ files["product_category"] = GoodModel
    /\ lpc[1] = "returned"
    /\ lret[1].d["sentiment"] = PyNone
    /\ lret[1].d["review_type"] = PyNone
    /\ lret[1].d["product_category"] = GoodModel

\* C5: single initialization.  Over every interleaving of load_models calls
\* the body runs at most once, also when first-time callers arrive together;
\* every call returns the one cached snapshot; and once the cache is
\* populated no step, a classify request included, changes it.
C5_SingleInitialization ==
    /\ [](/\ loads <= 1
          /\ (cache = NoSnapshot) = (loads = 0)
          /\ \A s \in Sessions : lret[s] # Unset => lret[s] = cache)
    /\ [][cache # NoSnapshot => cache' = cache]_vars

\* two first-time callers: one has loaded, the other waited for the lock
C5_Witness ==
    /\ loads = 1
    /\ lpc[1] = "returned"
    /\ lpc[2] = "locked"
    /\ lret[1] = cache
    /\ lret[2] = Unset

====
